---- MODULE Spec2Model ----
(***************************************************************************)
(* A model of the e-mail address extractor (src/main.py): the pattern      *)
(* matcher, the three source readers, the directory walker, the dispatcher *)
(* in main and the sink.  Texts, paths and file contents are sequences of  *)
(* one-character strings; the Python value None is the record NoneVal.     *)
(***************************************************************************)
EXTENDS Naturals, Sequences, FiniteSets, TLC

VARIABLES
    source,       \* args.source, a sequence of characters
    recursive,    \* args.recursive
    output_file,  \* args.output: TRUE when -o was given
    src_kind,     \* what the file system holds under the name source
    layout,       \* which text each file of the directory tree holds
    pc,           \* the statement of main that runs next
    text,         \* the text handed to the pattern matcher by the last reader
    emails,       \* the variable emails of main (or the matcher's result)
    all_emails,   \* the accumulator of extract_emails_from_directory
    pending,      \* directories os.walk has still to list
    cur_files,    \* files of the yielded directory still to visit
    yielded,      \* number of (root, dirs, files) triples os.walk has yielded
    listed,       \* per directory: "no", "ok" or "fail" (scandir's outcome)
    opens,        \* per file: how many times open(..., 'r') was called on it
    read_ok,      \* the files whose read returned a set
    fetches,      \* how many times requests.get was called
    dest_prior,   \* the destination before the run: "absent" or "old"
    dest,         \* the destination now: [exists, content]
    stdout,       \* the lines printed, in order
    logged,       \* the log records written: <<level, message kind>>
    failures      \* the failures that occurred, by kind

vars == <<source, recursive, output_file, src_kind, layout, pc, text, emails,
          all_emails, pending, cur_files, yielded, listed, opens, read_ok,
          fetches, dest_prior, dest, stdout, logged, failures>>

(***************************************************************************)
(* Bounds of the model.                                                    *)
(***************************************************************************)
\* Nesting depth of the directory tree below the root.
MaxDepth == 2
\* Longest text enumerated exhaustively for the pattern matcher.
MaxLen == 7

(***************************************************************************)
(* The pattern r"[a-zA-Z0-9._%+-]+@[a-zA-Z0-9.-]+\.[a-zA-Z]{2,}".          *)
(***************************************************************************)
Letters ==
    {"a", "b", "c", "d", "e", "f", "g", "h", "i", "j", "k", "l", "m",
     "n", "o", "p", "q", "r", "s", "t", "u", "v", "w", "x", "y", "z",
     "A", "B", "C", "D", "E", "F", "G", "H", "I", "J", "K", "L", "M",
     "N", "O", "P", "Q", "R", "S", "T", "U", "V", "W", "X", "Y", "Z"}

Digits == {"0", "1", "2", "3", "4", "5", "6", "7", "8", "9"}

\* [a-zA-Z0-9._%+-]
LocalChars == Letters \cup Digits \cup {".", "_", "%", "+", "-"}

\* [a-zA-Z0-9.-]
DomainChars == Letters \cup Digits \cup {".", "-"}

\* {2,}
TldMin == 2

\* The position after the longest run of characters of S that starts at i.
RECURSIVE RunEnd(_, _, _)
RunEnd(t, i, S) ==
    IF i > Len(t) \/ t[i] \notin S THEN i ELSE RunEnd(t, i + 1, S)

TldEndOneLetter(t, p) ==
    LET e == RunEnd(t, p, Letters)
    IN  IF e - p >= 1 THEN e ELSE 0

\* [a-zA-Z]{2,} at p, greedy and last in the pattern: the whole run of
\* letters, if it has two letters or more.  0 when there is no match.
TldEnd(t, p) ==
    LET e == RunEnd(t, p, Letters)
    IN  IF e - p >= TldMin THEN e ELSE 0

\* Backtracking over the domain run that starts at p: the run ends before q,
\* and is shortened until \.[a-zA-Z]{2,} matches at its end.
RECURSIVE DomainBack(_, _, _)
DomainBack(t, p, q) ==
    IF q <= p THEN 0
    ELSE IF q <= Len(t) /\ t[q] = "." /\ TldEnd(t, q + 1) # 0
         THEN TldEnd(t, q + 1)
         ELSE DomainBack(t, p, q - 1)

\* [a-zA-Z0-9.-]+\.[a-zA-Z]{2,} at p: the longest domain run for which the
\* rest matches (greedy, backtracking to shorter runs).
DomainEnd(t, p) == DomainBack(t, p, RunEnd(t, p, DomainChars))

\* Backtracking over the local run that starts at i and ends before j.
RECURSIVE LocalBack(_, _, _)
LocalBack(t, i, j) ==
    IF j <= i THEN 0
    ELSE IF j <= Len(t) /\ t[j] = "@" /\ DomainEnd(t, j + 1) # 0
         THEN DomainEnd(t, j + 1)
         ELSE LocalBack(t, i, j - 1)

\* The whole pattern at i: the position after the match, 0 when none.
MatchEnd(t, i) == LocalBack(t, i, RunEnd(t, i, LocalChars))

\* re.findall: scan from the left; a match is taken and the scan goes on
\* after it, otherwise it moves one character on.
RECURSIVE FindAll(_, _)
FindAll(t, i) ==
    IF i > Len(t) THEN <<>>
    ELSE LET e == MatchEnd(t, i)
         IN  IF e # 0 THEN <<SubSeq(t, i, e - 1)>> \o FindAll(t, e)
             ELSE FindAll(t, i + 1)

\* set(re.findall(pattern, text))
ExtractEmails(t) ==
    LET found == FindAll(t, 1)
    IN  {found[k] : k \in DOMAIN found}

(***************************************************************************)
(* Python values.                                                          *)
(***************************************************************************)
NoneVal == [tag |-> "None", val |-> {}]

SetVal(s) == [tag |-> "set", val |-> s]

(***************************************************************************)
(* Texts the readers may return.                                           *)
(***************************************************************************)
Scenario1Text == <<"C", "o", "n", "t", "a", "c", "t", ":", " ", "a", ".", "b", "+", "c", "@", "e", "x", "a", "m", "p", "l", "e", ".", "c", "o", ".", "u", "k", " ", "o", "r", " ", "b", "a", "d", "-", "e", "m", "a", "i", "l">>

Scenario1Email == <<"a", ".", "b", "+", "c", "@", "e", "x", "a", "m", "p", "l", "e", ".", "c", "o", ".", "u", "k">>

TextNone == <<"n", "o", " ", "m", "a", "i", "l">>

TextOne == <<"x", "@", "y", ".", "c", "o", "m">>

TextTwo == <<"x", "@", "y", ".", "c", "o", "m", " ", "a", "@", "b", ".", "i", "o", " ", "x", "@", "y", ".", "c", "o", "m">>

OverlapText == <<"p", "@", "q", ".", "r", "s", "@", "b", ".", "c", "c">>

AdjacentText == <<"a", "@", "b", ".", "c", "o", "m", "-", "c", "@", "d", ".", "o", "r", "g">>

DigitText == <<"u", "1", "@", "h", "-", "9", ".", "d", "e", "4", " ", "_", "%", "@", "h", ".", "d", "e">>

TextDup == <<"m", "a", "i", "l", " ", "x", "@", "y", ".", "c", "o", "m">>

EmailXY == <<"x", "@", "y", ".", "c", "o", "m">>

EmailAB == <<"a", "@", "b", ".", "i", "o">>

\* The texts a file or a fetched page may hold.
UnitTexts == {TextNone, TextOne, TextTwo}

\* The texts of the files of the directory tree, by layout.
TreeTexts == <<TextOne, TextDup, TextTwo, TextNone>>

\* The texts a reader may hand to the pattern matcher, each with the set the
\* matcher returns for it.
ReadableTexts == UnitTexts \cup {TreeTexts[k] : k \in DOMAIN TreeTexts}

EmailsIn == [t \in ReadableTexts |-> ExtractEmails(t)]

\* The characters of the exhaustively enumerated texts: a letter, the dot, a
\* character of the local class only, the at sign and a character of no class.
Alphabet == {"a", ".", "+", "@", " "}

SampleTexts == {Scenario1Text, TextNone, TextOne, TextTwo, OverlapText,
                AdjacentText, DigitText}

MatcherTexts ==
    UNION {[1..n -> Alphabet] : n \in 0..MaxLen} \cup SampleTexts

(***************************************************************************)
(* The command line and the file system.                                   *)
(***************************************************************************)
SrcHttp == <<"h", "t", "t", "p", ":", "/", "/", "h">>

SrcHttps == <<"h", "t", "t", "p", "s", ":", "/", "/", "h">>

SrcNearUrl == <<"h", "t", "t", "p", ":", "/", "h">>

SrcPath == <<".", "/", "d", "a", "t", "a">>

Sources == {SrcHttp, SrcHttps, SrcNearUrl, SrcPath}

HttpPrefix == <<"h", "t", "t", "p", ":", "/", "/">>

HttpsPrefix == <<"h", "t", "t", "p", "s", ":", "/", "/">>

\* What the file system may hold under the name given as source.
SrcKinds == {"file", "dir", "absent"}

\* The directory tree under a directory source: directory 0 is the root and
\* directory d + 1 is the one subdirectory of directory d.
Dirs == 0..MaxDepth

FileNames == <<"f1.txt", "f2.txt">>

\* os.path.join(root, file): the file FileNames[i] of directory d is <<d, i>>.
Files == Dirs \X (1..Len(FileNames))

\* The path given as source, when it is read as a single file.
SourceFile == <<0, 0>>

Units == Files \cup {SourceFile}

Layouts == 0..(Len(TreeTexts) - 1)

\* Which text of TreeTexts the file f holds under the layout of the run.
ContentIndex(f) ==
    ((f[1] * Len(FileNames) + f[2] + layout) % Len(TreeTexts)) + 1

ContentOf(f) == TreeTexts[ContentIndex(f)]

FilesOf(d) == [i \in 1..Len(FileNames) |-> <<d, i>>]

SubDirs(d) == IF d < MaxDepth THEN <<d + 1>> ELSE <<>>

OldContent == <<"o", "l", "d", "\n">>

InitialDest(prior) ==
    IF prior = "old" THEN [exists |-> TRUE, content |-> OldContent]
    ELSE [exists |-> FALSE, content |-> <<>>]

(***************************************************************************)
(* Init: the state of main after parse_args (lines 122-127).               *)
(***************************************************************************)
Init ==
    /\ source \in Sources
    /\ recursive \in BOOLEAN
    /\ output_file \in BOOLEAN
    /\ src_kind \in SrcKinds
    /\ layout \in Layouts
    /\ pc = "Dispatch"
    /\ text = <<>>
    /\ emails = NoneVal
    /\ all_emails = {}
    /\ pending = <<>>
    /\ cur_files = <<>>
    /\ yielded = 0
    /\ listed = [d \in Dirs |-> "no"]
    /\ opens = [u \in Units |-> 0]
    /\ read_ok = {}
    /\ fetches = 0
    /\ dest_prior \in {"absent", "old"}
    /\ dest = InitialDest(dest_prior)
    /\ stdout = <<>>
    /\ logged = {}
    /\ failures = {}

(***************************************************************************)
(* main, lines 129-137: the dispatcher.                                    *)
(***************************************************************************)
StartsWith(s, p) == Len(s) >= Len(p) /\ SubSeq(s, 1, Len(p)) = p

IsUrl(s) == StartsWith(s, HttpPrefix) \/ StartsWith(s, HttpsPrefix)

ClassifyFileFirst(s, kind) ==
    IF kind = "file" THEN "file"
    ELSE IF kind = "dir" THEN "dir"
    ELSE IF IsUrl(s) THEN "url"
    ELSE "invalid"

\* The if / elif chain: the first test that holds decides.
Classify(s, kind) ==
    IF IsUrl(s) THEN "url"
    ELSE IF kind = "file" THEN "file"
    ELSE IF kind = "dir" THEN "dir"
    ELSE "invalid"

Dispatch ==
    /\ pc = "Dispatch"
    /\ LET class == Classify(source, src_kind)
       IN  \/ /\ class = "url"
              /\ pc' = "Fetch"
              /\ UNCHANGED <<pending, logged, failures>>
           \/ /\ class = "file"
              /\ pc' = "ReadFile"
              /\ UNCHANGED <<pending, logged, failures>>
           \/ /\ class = "dir"
              /\ pc' = "Walk"
              /\ pending' = <<0>>
              /\ UNCHANGED <<logged, failures>>
           \/ /\ class = "invalid"
              /\ pc' = "Done"
              /\ logged' = logged \cup {<<"ERROR", "invalid_source">>}
              /\ failures' = failures \cup {"invalid"}
              /\ UNCHANGED pending
    /\ UNCHANGED <<source, recursive, output_file, src_kind, layout, text,
                   emails, all_emails, cur_files, yielded, listed, opens,
                   read_ok, fetches, dest_prior, dest, stdout>>

(***************************************************************************)
(* extract_emails_from_url, lines 36-48.                                   *)
(***************************************************************************)
\* What requests.get, raise_for_status and BeautifulSoup may do.
FetchOutcomes == {"ok", "request_exception", "other_exception"}

extract_emails_from_url(outcome, t) ==
    CASE outcome = "ok" ->
            [ret |-> SetVal(EmailsIn[t]), log |-> {}, fail |-> {}]
      [] outcome = "request_exception" ->
            [ret |-> NoneVal, log |-> {<<"ERROR", "fetching_url">>},
             fail |-> {"fetch"}]
      [] outcome = "other_exception" ->
            [ret |-> NoneVal, log |-> {<<"ERROR", "processing_url">>},
             fail |-> {"fetch"}]

Fetch ==
    /\ pc = "Fetch"
    /\ \E outcome \in FetchOutcomes, t \in UnitTexts :
          LET r == extract_emails_from_url(outcome, t)
          IN  /\ fetches' = fetches + 1
              /\ text' = IF outcome = "ok" THEN t ELSE text
              /\ emails' = r.ret
              /\ logged' = logged \cup r.log
              /\ failures' = failures \cup r.fail
    /\ pc' = "Check"
    /\ UNCHANGED <<source, recursive, output_file, src_kind, layout,
                   all_emails, pending, cur_files, yielded, listed, opens,
                   read_ok, dest_prior, dest, stdout>>

(***************************************************************************)
(* extract_emails_from_file, lines 61-71.                                  *)
(***************************************************************************)
\* What open and read may do.
ReadOutcomes == {"ok", "not_found", "other_exception"}

extract_emails_from_file(outcome, t) ==
    CASE outcome = "ok" ->
            [ret |-> SetVal(EmailsIn[t]), log |-> {}]
      [] outcome = "not_found" ->
            [ret |-> NoneVal, log |-> {<<"ERROR", "file_not_found">>}]
      [] outcome = "other_exception" ->
            [ret |-> NoneVal, log |-> {<<"ERROR", "processing_file">>}]

\* main, line 132: the source read as one file.
ReadFile ==
    /\ pc = "ReadFile"
    /\ \E outcome \in ReadOutcomes, t \in UnitTexts :
          LET r == extract_emails_from_file(outcome, t)
          IN  /\ opens' = [opens EXCEPT ![SourceFile] = @ + 1]
              /\ text' = IF outcome = "ok" THEN t ELSE text
              /\ read_ok' = IF outcome = "ok" THEN read_ok \cup {SourceFile}
                            ELSE read_ok
              /\ emails' = r.ret
              /\ logged' = logged \cup r.log
              /\ failures' = IF outcome = "ok" THEN failures
                             ELSE failures \cup {"file"}
    /\ pc' = "Check"
    /\ UNCHANGED <<source, recursive, output_file, src_kind, layout,
                   all_emails, pending, cur_files, yielded, listed, fetches,
                   dest_prior, dest, stdout>>

(***************************************************************************)
(* extract_emails_from_directory, lines 85-98.  os.walk is called with its *)
(* default onerror=None: a directory that scandir cannot list is skipped   *)
(* without an exception, so the walk of an unlistable root yields nothing  *)
(* and the except clause of lines 96-98 is never entered for it.           *)
(***************************************************************************)
\* What os.scandir may do on a directory.
ListOutcomes == {"ok", "os_error"}

MergeOverwrite(acc, ret) == IF ret # NoneVal THEN ret.val ELSE acc

\* Lines 91-92: a result is merged into the accumulator, None is skipped.
Merge(acc, ret) == IF ret # NoneVal THEN acc \cup ret.val ELSE acc

\* Lines 93-94: break after the first yielded triple unless recursive.
WalkGoesOnIgnoringFlag(rec, n) == TRUE

WalkGoesOn(rec, n) == rec \/ n = 0

\* os.walk lists the next directory (line 87, one step of the generator).
WalkList ==
    /\ pc = "Walk"
    /\ cur_files = <<>>
    /\ pending # <<>>
    /\ WalkGoesOn(recursive, yielded)
    /\ LET d == Head(pending)
       IN  \E outcome \in ListOutcomes :
              \/ /\ outcome = "ok"
                 /\ listed' = [listed EXCEPT ![d] = "ok"]
                 /\ yielded' = yielded + 1
                 /\ cur_files' = FilesOf(d)
                 /\ pending' = SubDirs(d) \o Tail(pending)
                 /\ UNCHANGED failures
              \/ /\ outcome = "os_error"
                 /\ listed' = [listed EXCEPT ![d] = "fail"]
                 /\ pending' = Tail(pending)
                 /\ failures' = failures \cup
                                  {IF d = 0 THEN "dir_root" ELSE "subdir"}
                 /\ UNCHANGED <<yielded, cur_files>>
    /\ UNCHANGED <<source, recursive, output_file, src_kind, layout, pc, text,
                   emails, all_emails, opens, read_ok, fetches, dest_prior,
                   dest, stdout, logged>>

\* Lines 88-92: one file of the yielded directory.
WalkFile ==
    /\ pc = "Walk"
    /\ cur_files # <<>>
    /\ LET f == Head(cur_files)
       IN  \E outcome \in ReadOutcomes :
              LET r == extract_emails_from_file(outcome, ContentOf(f))
              IN  /\ opens' = [opens EXCEPT ![f] = @ + 1]
                  /\ read_ok' = IF outcome = "ok" THEN read_ok \cup {f}
                                ELSE read_ok
                  /\ all_emails' = Merge(all_emails, r.ret)
                  /\ logged' = logged \cup r.log
                  /\ failures' = IF outcome = "ok" THEN failures
                                 ELSE failures \cup {"entry_file"}
    /\ cur_files' = Tail(cur_files)
    /\ UNCHANGED <<source, recursive, output_file, src_kind, layout, pc, text,
                   emails, pending, yielded, listed, fetches, dest_prior,
                   dest, stdout>>

\* Line 95, after the loop ended or was left by break; main, line 134.
WalkReturn ==
    /\ pc = "Walk"
    /\ cur_files = <<>>
    /\ pending = <<>> \/ ~WalkGoesOn(recursive, yielded)
    /\ emails' = SetVal(all_emails)
    /\ pc' = "Check"
    /\ UNCHANGED <<source, recursive, output_file, src_kind, layout, text,
                   all_emails, pending, cur_files, yielded, listed, opens,
                   read_ok, fetches, dest_prior, dest, stdout, logged,
                   failures>>

(***************************************************************************)
(* main, lines 139-141.                                                    *)
(***************************************************************************)
IsFalsy(e) == e = NoneVal \/ e.val = {}

\* emails is None
IsNone(e) == e = NoneVal

AfterCheckRetry(e) == IF IsNone(e) THEN "Dispatch" ELSE "Sink"

\* Lines 139-143: return on None, go on to the sink otherwise.
AfterCheck(e) == IF IsNone(e) THEN "Done" ELSE "Sink"

Check ==
    /\ pc = "Check"
    /\ pc' = AfterCheck(emails)
    /\ logged' = IF pc' = "Sink" THEN logged
                 ELSE logged \cup {<<"ERROR", "no_emails_or_error">>}
    /\ UNCHANGED <<source, recursive, output_file, src_kind, layout, text,
                   emails, all_emails, pending, cur_files, yielded, listed,
                   opens, read_ok, fetches, dest_prior, dest, stdout,
                   failures>>

(***************************************************************************)
(* save_emails_to_file, lines 109-115, and main, lines 143-149.            *)
(***************************************************************************)
\* The orders in which a set may be iterated.
Orders(S) ==
    {o \in [1..Cardinality(S) -> S] :
        \A i, j \in 1..Cardinality(S) : i # j => o[i] # o[j]}

\* f.write(email + '\n') for the first k addresses of the iteration.
RECURSIVE Written(_, _)
Written(order, k) ==
    IF k = 0 THEN <<>>
    ELSE Written(order, k - 1) \o order[k] \o <<"\n">>

OpenForAppend(d) == [exists |-> TRUE, content |-> d.content]

\* open(output_file, 'w'): the file is created or truncated.
OpenForWrite(d) == [exists |-> TRUE, content |-> <<>>]

\* How many addresses are written before a write fails: Len(order) when
\* every write succeeds.
WriteOutcomes(order) == 0..Len(order)

save_emails_to_file(d, order, open_ok, k) ==
    IF ~open_ok
    THEN [dest |-> d, log |-> {<<"ERROR", "saving">>}, fail |-> {"write"}]
    ELSE LET opened == OpenForWrite(d)
             after  == [opened EXCEPT
                           !.content = @ \o Written(order, k)]
         IN  IF k = Len(order)
             THEN [dest |-> after, log |-> {<<"INFO", "saved">>},
                   fail |-> {}]
             ELSE [dest |-> after, log |-> {<<"ERROR", "saving">>},
                   fail |-> {"write"}]

Sink ==
    /\ pc = "Sink"
    /\ \E order \in Orders(emails.val) :
          \/ /\ output_file
             /\ \E open_ok \in BOOLEAN, k \in WriteOutcomes(order) :
                   LET r == save_emails_to_file(dest, order, open_ok, k)
                   IN  /\ dest' = r.dest
                       /\ logged' = logged \cup r.log
                                      \cup {<<"INFO", "complete">>}
                       /\ failures' = failures \cup r.fail
             /\ UNCHANGED stdout
          \/ /\ ~output_file
             /\ stdout' = order
             /\ logged' = logged \cup {<<"INFO", "complete">>}
             /\ UNCHANGED <<dest, failures>>
    /\ pc' = "Done"
    /\ UNCHANGED <<source, recursive, output_file, src_kind, layout, text,
                   emails, all_emails, pending, cur_files, yielded, listed,
                   opens, read_ok, fetches, dest_prior>>

Next ==
    \/ Dispatch
    \/ Fetch
    \/ ReadFile
    \/ WalkList
    \/ WalkFile
    \/ WalkReturn
    \/ Check
    \/ Sink

Spec == Init /\ [][Next]_vars

\* main runs to its end: no step that can be taken is put off for ever.
FairSpec == Spec /\ WF_vars(Next)

(***************************************************************************)
(* The pattern matcher alone, on every text of MatcherTexts.               *)
(***************************************************************************)
InitMatch ==
    /\ text \in MatcherTexts
    /\ pc = "Match"
    /\ emails = NoneVal
    /\ source = SrcPath
    /\ recursive = FALSE
    /\ output_file = FALSE
    /\ src_kind = "file"
    /\ layout = 0
    /\ all_emails = {}
    /\ pending = <<>>
    /\ cur_files = <<>>
    /\ yielded = 0
    /\ listed = [d \in Dirs |-> "no"]
    /\ opens = [u \in Units |-> 0]
    /\ read_ok = {}
    /\ fetches = 0
    /\ dest_prior = "absent"
    /\ dest = InitialDest(dest_prior)
    /\ stdout = <<>>
    /\ logged = {}
    /\ failures = {}

\* Lines 41 and 64.
MatchText ==
    /\ pc = "Match"
    /\ emails' = SetVal(ExtractEmails(text))
    /\ pc' = "Matched"
    /\ UNCHANGED <<source, recursive, output_file, src_kind, layout, text,
                   all_emails, pending, cur_files, yielded, listed, opens,
                   read_ok, fetches, dest_prior, dest, stdout, logged,
                   failures>>

NextMatch == MatchText

SpecMatch == InitMatch /\ [][NextMatch]_vars

(***************************************************************************)
(* Properties.                                                             *)
(***************************************************************************)
\* The extraction branches that have run: the URL reader has called
\* requests.get, the file reader has opened the source, the walker has had
\* os.walk try to list the root.
BranchesRun ==
    {b \in {"url", "file", "dir"} :
        \/ b = "url" /\ fetches > 0
        \/ b = "file" /\ opens[SourceFile] > 0
        \/ b = "dir" /\ listed[0] # "no"}

WalkReturned == pc \in {"Check", "Sink", "Done"} /\ listed[0] # "no"

Visited == {f \in Files : opens[f] > 0}

\* C1: at most one extraction branch ever runs; once the run is over, the
\* branch that ran is the one of the first rule that matches, in the order
\* URL prefix, regular file, directory (a URL prefix wins over a file or a
\* directory of that name), and with no rule matching no branch ran and the
\* invalid source was reported.
DispatchFirstMatch ==
    /\ Cardinality(BranchesRun) <= 1
    /\ pc = "Done" =>
          /\ IsUrl(source) => BranchesRun = {"url"}
          /\ ~IsUrl(source) /\ src_kind = "file" => BranchesRun = {"file"}
          /\ ~IsUrl(source) /\ src_kind = "dir" => BranchesRun = {"dir"}
          /\ ~IsUrl(source) /\ src_kind = "absent" =>
                /\ BranchesRun = {}
                /\ <<"ERROR", "invalid_source">> \in logged
                /\ emails = NoneVal

\* A source with a URL prefix that also names a directory went to the URL
\* reader.
DispatchWitness ==
    /\ pc = "Done"
    /\ source = SrcHttps
    /\ src_kind = "dir"
    /\ BranchesRun = {"url"}

\* C2: a run in which a top-level failure occurred (fetch, single file,
\* invalid source, unlistable directory root) has produced no output: it
\* has printed nothing and the destination is as it was before the run,
\* neither created nor truncated nor written.
NoOutputAfterTopLevelFailure ==
    (pc = "Done" /\ failures \cap {"fetch", "file", "invalid", "dir_root"} # {})
        => /\ stdout = <<>>
           /\ dest = InitialDest(dest_prior)

\* The union of the File Reader's results over a set of files of the tree.
ResultsOf(fs) == UNION {EmailsIn[ContentOf(f)] : f \in fs}

\* C3: during a directory traversal the accumulator is the union of the
\* results of the files read successfully so far; a failed read changes
\* nothing and the traversal goes on: when it returns, every file of every
\* directory that was listed has been visited, and the returned set is the
\* union of the results of exactly the visited files that were read
\* successfully (a set: an address of several files is in it once).
WalkUnion ==
    /\ pc = "Walk" => all_emails = ResultsOf(read_ok)
    /\ WalkReturned =>
          /\ emails = SetVal(ResultsOf(read_ok))
          /\ read_ok \subseteq Visited
          /\ \A d \in Dirs : listed[d] = "ok" =>
                \A i \in 1..Len(FileNames) : opens[<<d, i>>] = 1

\* A failed file in directory 1, files read after it in directory 2, and
\* two root files that both hold x@y.com: the result is {x@y.com}.
WalkUnionWitness ==
    /\ pc = "Done"
    /\ WalkReturned
    /\ <<1, 1>> \in Visited \ read_ok
    /\ {<<0, 1>>, <<0, 2>>, <<2, 1>>} \subseteq read_ok
    /\ EmailXY \in EmailsIn[ContentOf(<<0, 1>>)]
    /\ EmailXY \in EmailsIn[ContentOf(<<0, 2>>)]
    /\ emails = SetVal({EmailXY})

Reached(d) == (d = 0 \/ recursive) /\ \A k \in 0..(d - 1) : listed[k] = "ok"

UnlistableRootGivesNone ==
    (WalkReturned /\ listed[0] = "fail") => emails = NoneVal

\* Reading a file back line by line: the lines without their line ends.
RECURSIVE SplitLines(_, _)
SplitLines(c, cur) ==
    IF c = <<>> THEN (IF cur = <<>> THEN <<>> ELSE <<cur>>)
    ELSE IF Head(c) = "\n" THEN <<cur>> \o SplitLines(Tail(c), <<>>)
    ELSE SplitLines(Tail(c), Append(cur, Head(c)))

ReadBack(c) == SplitLines(c, <<>>)

\* C6: after save_emails_to_file completed without a failure, whatever the
\* destination held before, the destination exists and read back line by
\* line it gives the addresses of the set, each exactly once, and nothing
\* else (no line for the empty set).
SaveRoundTrip ==
    (pc = "Done" /\ output_file /\ <<"INFO", "saved">> \in logged) =>
        LET lines == ReadBack(dest.content)
        IN  /\ dest.exists
            /\ {lines[k] : k \in DOMAIN lines} = emails.val
            /\ Len(lines) = Cardinality(emails.val)

\* Two addresses were saved over a destination that held other content.
SaveRoundTripWitness ==
    /\ pc = "Done"
    /\ output_file
    /\ <<"INFO", "saved">> \in logged
    /\ dest_prior = "old"
    /\ emails = SetVal({EmailXY, EmailAB})
    /\ Len(ReadBack(dest.content)) = 2

\* The rule of the pattern, on a whole string: one or more characters of the
\* local class, an at sign, one or more characters of the domain class, a
\* dot, two or more letters.
FullMatch(a) ==
    \E j \in 2..Len(a) :
        /\ a[j] = "@"
        /\ \A k \in 1..(j - 1) : a[k] \in LocalChars
        /\ \E q \in (j + 2)..(Len(a) - 2) :
              /\ a[q] = "."
              /\ \A k \in (j + 1)..(q - 1) : a[k] \in DomainChars
              /\ \A k \in (q + 1)..Len(a) : a[k] \in Letters

\* The occurrences in t of strings that match the rule, as <<first, last>>.
Occurrences(t) ==
    {o \in (1..Len(t)) \X (1..Len(t)) :
        o[1] <= o[2] /\ FullMatch(SubSeq(t, o[1], o[2]))}

\* No substring of t matches the rule.
NoMatchIn(t) == Occurrences(t) = {}

\* The one source unit (the page or the single file) was read successfully.
UnitRead ==
    \/ fetches = 1 /\ "fetch" \notin failures
    \/ SourceFile \in read_ok

\* C7: a unit read successfully whose text has no match gives the empty
\* set, not None; the run does not report the failure of lines 139-141 and
\* goes through the sink to its end; a traversal whose files hold no
\* address gives the empty set likewise; and emails is None only after a
\* fetch or a read failed.
EmptyIsSuccess ==
    /\ (pc \in {"Check", "Sink", "Done"} /\ UnitRead /\ NoMatchIn(text)) =>
          /\ emails = SetVal({})
          /\ <<"ERROR", "no_emails_or_error">> \notin logged
          /\ pc = "Done" => <<"INFO", "complete">> \in logged
    /\ (WalkReturned /\ ResultsOf(read_ok) = {}) =>
          /\ emails = SetVal({})
          /\ <<"ERROR", "no_emails_or_error">> \notin logged
          /\ pc = "Done" => <<"INFO", "complete">> \in logged
    /\ (pc \in {"Check", "Sink", "Done"} /\ BranchesRun # {}
            /\ emails = NoneVal) =>
          failures \cap {"fetch", "file"} # {}

\* A file without any address was read and the run went through the sink.
EmptyIsSuccessWitness ==
    /\ pc = "Done"
    /\ SourceFile \in read_ok
    /\ text = TextNone
    /\ emails = SetVal({})
    /\ <<"INFO", "complete">> \in logged

\* The error messages that report a failure of a kind; "processing_directory"
\* is the message of line 97.
ErrorLogsFor(k) ==
    CASE k = "fetch" ->
            {<<"ERROR", "fetching_url">>, <<"ERROR", "processing_url">>}
      [] k \in {"file", "entry_file"} ->
            {<<"ERROR", "file_not_found">>, <<"ERROR", "processing_file">>}
      [] k = "invalid" -> {<<"ERROR", "invalid_source">>}
      [] k = "write" -> {<<"ERROR", "saving">>}
      [] k \in {"dir_root", "subdir"} -> {<<"ERROR", "processing_directory">>}

\* C8: at the end of a run every failure that occurred (URL, file or
\* directory unreadable, invalid source, write failure) has been reported by
\* an error message of its kind.
EveryFailureLogged ==
    pc = "Done" => \A k \in failures : ErrorLogsFor(k) \cap logged # {}

\* The stages Start/Dispatch, Extract, the test of the result, Sink, end.
Rank(p) ==
    CASE p = "Dispatch" -> 1
      [] p \in {"Fetch", "ReadFile", "Walk"} -> 2
      [] p = "Check" -> 3
      [] p = "Sink" -> 4
      [] p = "Done" -> 5

\* What a traversal has still to do: directories to list, files to read.
WalkLeft ==
    Cardinality({d \in Dirs : listed[d] = "no"})
        + Cardinality({f \in Files : opens[f] = 0})

\* Nothing of the extraction is left to do.
ExtractionFinished ==
    /\ cur_files = <<>>
    /\ listed[0] # "no" =>
          /\ \A d \in Dirs : Reached(d) => listed[d] # "no"
          /\ \A d \in Dirs : listed[d] = "ok" =>
                \A i \in 1..Len(FileNames) : opens[<<d, i>>] = 1

\* A step to a later stage, or a step of the traversal that lists a
\* directory or reads a file not listed or read before.
StepForward ==
    \/ Rank(pc') > Rank(pc)
    \/ pc = "Walk" /\ pc' = "Walk" /\ WalkLeft' < WalkLeft

\* From the sink on nothing is fetched, listed or read.
NoReadFromSinkOn ==
    pc \in {"Sink", "Done"} =>
        fetches' = fetches /\ opens' = opens /\ listed' = listed

\* C10: every step moves the run to a later stage, or is a step of the
\* traversal that lists a directory or reads a file not listed or read
\* before; the URL is fetched at most once and each file opened at most
\* once; the sink is entered only when the extraction is finished and
\* nothing is fetched, listed or read from then on; and the run ends.
LinearRun ==
    /\ [][StepForward]_vars
    /\ [](fetches <= 1 /\ \A u \in Units : opens[u] <= 1)
    /\ [](pc = "Sink" => emails # NoneVal /\ ExtractionFinished)
    /\ [][NoReadFromSinkOn]_vars
    /\ <>(pc = "Done")

\* A run over the whole tree, with a failed read, that went through the sink.
LinearRunWitness ==
    /\ pc = "Done"
    /\ <<"INFO", "complete">> \in logged
    /\ recursive
    /\ Visited = Files
    /\ "entry_file" \in failures

\* The occurrence o of the text is contained in no longer one.
Maximal(o, occ) ==
    \A o2 \in occ : (o2[1] <= o[1] /\ o[2] <= o2[2]) => o2 = o

\* C9 as stated, an address-like string that occurs in the text being read
\* as a longest substring matching the rule: the result holds only
\* substrings of the text that match the rule, and every such string that
\* occurs in the text.
MatcherReturnsEveryAddress ==
    pc = "Matched" =>
        LET occ == Occurrences(text)
        IN  /\ \A e \in emails.val :
                  \E o \in occ : SubSeq(text, o[1], o[2]) = e
            /\ \A o \in occ :
                  Maximal(o, occ) => SubSeq(text, o[1], o[2]) \in emails.val

\* The occurrence o stands alone: no character of the local class and no at
\* sign before it, no character of the domain class after it.
Delimited(o) ==
    /\ o[1] = 1 \/ text[o[1] - 1] \notin LocalChars \cup {"@"}
    /\ o[2] = Len(text) \/ text[o[2] + 1] \notin DomainChars

\* C9 as amended: the result is a set (each address once) of substrings of
\* the text that match the rule, found by a scan from the left for matches
\* that do not overlap; it is empty when no substring matches; an
\* address-like string that occurs delimited (not preceded by a character of
\* the local class or an at sign, not followed by a character of the domain
\* class) is in it; "Contact: a.b+c@example.co.uk or bad-email" gives
\* exactly {"a.b+c@example.co.uk"}.
MatcherReturnsDelimitedAddresses ==
    pc = "Matched" =>
        LET occ == Occurrences(text)
        IN  /\ emails.tag = "set"
            /\ \A e \in emails.val :
                  \E o \in occ : SubSeq(text, o[1], o[2]) = e
            /\ \A o \in occ :
                  Delimited(o) => SubSeq(text, o[1], o[2]) \in emails.val
            /\ occ = {} => emails.val = {}
            /\ text = Scenario1Text => emails.val = {Scenario1Email}
            /\ text = TextTwo => emails.val = {EmailXY, EmailAB}

\* The text of scenario 1 was matched.
MatcherWitness ==
    /\ pc = "Matched"
    /\ text = Scenario1Text
    /\ emails = SetVal({Scenario1Email})

====
